---- MODULE Spec2Model ----
(***************************************************************************)
(* Model of api/index.py: the timetable generator (TimetableGenerator) and *)
(* the two upload endpoints that drive it.  One behaviour of the model is  *)
(* one request: the tables are drawn in Init, the mapping is built, and    *)
(* generate_timetables runs one loop iteration per step.                   *)
(***************************************************************************)
EXTENDS Integers, Sequences, FiniteSets, TLC

VARIABLES
    teacher_df,         \* rows of the Teacher sheet
    sections_df,        \* rows of the Sections sheet
    all_rooms,          \* rows of the rooms sheet (rooms_df.to_dict('records'))
    teacher_mapping,    \* subject -> list of {name, credit_hours}
    room_bookings,      \* self.room_bookings, as the set of <<day, time, room id>>
    timetables,         \* local dict of generate_timetables: section -> list of entries
    current_slot_index, \* the slot cursor
    row,                \* position of the outer loop in sections_df (1-based)
    subj,               \* position of the inner loop in subject_list (1-based)
    hour_i,             \* the i of "for i in range(credit_hours)"
    attempts,           \* attempts of the running while loop
    start_search_index, \* cursor value captured when a lab search starts
    scheduled,          \* scheduled / scheduled_hour of the running search
    pc,                 \* where the request is
    exc,                \* message of the ValueError raised, "" when none
    response,           \* what the endpoint gave back to the caller
    bookings,           \* history: one record per successful find_and_book_room
    runs,               \* number of calls of generate_timetables on this generator
    previous,           \* history: outcome of the previous call on this generator
    wraps,              \* history: the ways the slot indices of this run have wrapped
    output_file,        \* the file timetable_output.docx in the working directory
    who,                \* the request whose handler is running (1 or 2)
    other               \* the suspended handler of the other request: its variables

vars == << teacher_df, sections_df, all_rooms, teacher_mapping, room_bookings,
           timetables, current_slot_index, row, subj, hour_i, attempts,
           start_search_index, scheduled, pc, exc, response, bookings, runs,
           previous, wraps, output_file, who, other >>

(***************************************************************************)
(* Bounds of the model.                                                    *)
(***************************************************************************)
MaxSubjects == 2      \* subjects named in the whole Sections sheet
MaxRooms == 2         \* rows of the rooms sheet

(***************************************************************************)
(* Strings.                                                                *)
(***************************************************************************)
\* one character of str.lower()
LowerChar(c) ==
    CASE c = "A" -> "a"  [] c = "B" -> "b"  [] c = "C" -> "c"  [] c = "D" -> "d"
      [] c = "E" -> "e"  [] c = "F" -> "f"  [] c = "G" -> "g"  [] c = "H" -> "h"
      [] c = "I" -> "i"  [] c = "J" -> "j"  [] c = "K" -> "k"  [] c = "L" -> "l"
      [] c = "M" -> "m"  [] c = "N" -> "n"  [] c = "O" -> "o"  [] c = "P" -> "p"
      [] c = "Q" -> "q"  [] c = "R" -> "r"  [] c = "S" -> "s"  [] c = "T" -> "t"
      [] c = "U" -> "u"  [] c = "V" -> "v"  [] c = "W" -> "w"  [] c = "X" -> "x"
      [] c = "Y" -> "y"  [] c = "Z" -> "z"
      [] OTHER -> c

\* the k-th character of s
CharAt(s, k) == SubSeq(s, k, k)

\* the Python test "sub in s.lower()", for sub in lower case
InLower(sub, s) ==
    \E k \in 1..(Len(s) - Len(sub) + 1) :
        \A j \in 1..Len(sub) : LowerChar(CharAt(s, k + j - 1)) = CharAt(sub, j)

\* the Python test s.lower().endswith(suf), for suf in lower case
EndsWithLower(s, suf) ==
    /\ Len(s) >= Len(suf)
    /\ \A j \in 1..Len(suf) : LowerChar(CharAt(s, Len(s) - Len(suf) + j)) = CharAt(suf, j)

\* the Python test "sub in s"
Contains(sub, s) ==
    \E k \in 1..(Len(s) - Len(sub) + 1) : SubSeq(s, k, k + Len(sub) - 1) = sub

(***************************************************************************)
(* The week grid.                                                          *)
(***************************************************************************)
days == << "Monday", "Tuesday", "Wednesday", "Thursday", "Friday" >>

\* range(a, b) as the sequence of slots (hour, hour + 1)
HourSlots(a, b) == [k \in 1..(b - a) |-> << a + k - 1, a + k >>]

\* the slots of a day without the Friday case
_generate_time_slots_no_friday(day) == HourSlots(8, 12) \o HourSlots(13, 16)

\* TimetableGenerator._generate_time_slots, for one day
_generate_time_slots(day) ==
    HourSlots(8, 12) \o (IF day = "Friday" THEN HourSlots(14, 16) ELSE HourSlots(13, 16))

RECURSIVE SlotsFrom(_)
SlotsFrom(d) ==
    IF d > Len(days) THEN << >>
    ELSE [k \in 1..Len(_generate_time_slots(days[d])) |->
             [day |-> days[d], time |-> _generate_time_slots(days[d])[k]]]
         \o SlotsFrom(d + 1)

\* the list all_possible_slots of generate_timetables (1-based here)
all_possible_slots == SlotsFrom(1)

total_slots == Len(all_possible_slots)

\* the f-string "{start}:00-{end}:00"
FormatTime(t) == ToString(t[1]) \o ":00-" \o ToString(t[2]) \o ":00"

\* all_possible_slots[i] for a Python (0-based) index i
SlotAt(i) == all_possible_slots[i + 1]

(***************************************************************************)
(* The tables a request may upload.                                        *)
(***************************************************************************)
\* a cell of the "credit hours" column: an integer, a blank cell (NaN), or
\* the whole column absent from the sheet
IntCell(n) == [kind |-> "int", val |-> n]
BlankCell == [kind |-> "blank", val |-> 0]
AbsentCell == [kind |-> "absent", val |-> 0]

\* no hours (0 or fewer), a few hours, and nearly the whole week
CreditCells == { AbsentCell, BlankCell, IntCell(-1), IntCell(total_slots - 2) }

\* the Teacher sheet: the first teacher's credit hours vary
TeacherTable(c) ==
    << [Name |-> "Asma main", courses |-> << "Math" >>, credit_hours |-> c],
       [Name |-> "Bilal", courses |-> << "Net Lab", "Math" >>, credit_hours |-> IntCell(1)] >>

\* "Art" has no teacher
SubjectPool == { "Math", "Net Lab", "Art" }

RoomPool ==
    { [room_id |-> "KE-1", type |-> "Class Room"],
      [room_id |-> "KE-9", type |-> "Computer Lab"],
      [room_id |-> "KE-Lab", type |-> "Class"] }

RoomRosters == UNION { [1..n -> RoomPool] : n \in 1..MaxRooms }

\* the Subject cell of a row, already split at the commas
SubjectLists == UNION { [1..n -> SubjectPool] : n \in 1..MaxSubjects }

RECURSIVE TotalSubjects(_)
TotalSubjects(lists) ==
    IF Len(lists) = 0 THEN 0 ELSE Len(Head(lists)) + TotalSubjects(Tail(lists))

SectionName(k) == "S" \o ToString(k)

SectionTables ==
    { [k \in 1..Len(lists) |-> [Section |-> SectionName(k), Subject |-> lists[k]]] :
        lists \in { l \in UNION { [1..n -> SubjectLists] : n \in 1..MaxSubjects } :
                      TotalSubjects(l) <= MaxSubjects } }

(***************************************************************************)
(* TimetableGenerator                                                      *)
(***************************************************************************)
\* the subjects some row of the Teacher sheet lists
Courses(df) == UNION { { df[k].courses[j] : j \in 1..Len(df[k].courses) } : k \in 1..Len(df) }

\* the rows of df that list course, in sheet order
RECURSIVE TeachersOf(_, _, _)
TeachersOf(df, course, k) ==
    IF k > Len(df) THEN << >>
    ELSE (IF \E j \in 1..Len(df[k].courses) : df[k].courses[j] = course
          THEN << [name |-> df[k].Name,
                   credit_hours |-> IF df[k].credit_hours.kind = "absent"
                                    THEN IntCell(0) ELSE df[k].credit_hours] >>
          ELSE << >>)
         \o TeachersOf(df, course, k + 1)

build_teacher_mapping(df) == [course \in Courses(df) |-> TeachersOf(df, course, 1)]

\* a placeholder teacher for a subject nobody teaches
TeachersFor_placeholder(mapping, subject) ==
    IF subject \in DOMAIN mapping THEN mapping[subject]
    ELSE << [name |-> "TBA", credit_hours |-> IntCell(3)] >>

\* teacher_mapping.get(subject, [])
TeachersFor(mapping, subject) ==
    IF subject \in DOMAIN mapping THEN mapping[subject] ELSE << >>

\* int(teachers[0].get('credit_hours', 3)) inside try / except
ParseCredit(cell) == IF cell.kind = "int" THEN cell.val ELSE 3

\* is_lab of a subject
IsLabSubject(subject) ==
    EndsWithLower(subject, "lab") \/ InLower("lab", subject)

\* the ledger read with its two keys swapped: it finds every room free
check_room_availability_swapped(room_id, day, times, rb) ==
    \A k \in 1..Len(times) : << times[k], day, room_id >> \notin rb

check_room_availability(room_id, day, times, rb) ==
    \A k \in 1..Len(times) : << day, times[k], room_id >> \notin rb

\* the type test without "and 'lab' not in r_type"
TypeMatch_lab_not_excluded(room, is_lab) ==
    IF is_lab
    THEN InLower("lab", room.type) \/ InLower("lab", room.room_id)
    ELSE \/ InLower("ke", room.type)
         \/ InLower("ke", room.room_id)
         \/ InLower("class", room.type)

\* the type test of find_and_book_room
TypeMatch(room, is_lab) ==
    IF is_lab
    THEN InLower("lab", room.type) \/ InLower("lab", room.room_id)
    ELSE /\ \/ InLower("ke", room.type)
            \/ InLower("ke", room.room_id)
            \/ InLower("class", room.type)
         /\ ~InLower("lab", room.type)

\* type_match of every room a roster can hold, worked out once
type_match == [room \in RoomPool, is_lab \in BOOLEAN |-> TypeMatch(room, is_lab)]

RECURSIVE BookFrom(_, _, _, _, _, _)
\* the loop of find_and_book_room from roster position k on
BookFrom(k, day, times, is_lab, rooms, rb) ==
    IF k > Len(rooms) THEN [room |-> "TBA", room_bookings |-> rb]
    ELSE IF ~type_match[rooms[k], is_lab]
         THEN BookFrom(k + 1, day, times, is_lab, rooms, rb)
         ELSE IF check_room_availability(rooms[k].room_id, day, times, rb)
              THEN [room |-> rooms[k].room_id,
                    room_bookings |->
                        rb \cup { << day, times[j], rooms[k].room_id >> : j \in 1..Len(times) }]
              ELSE BookFrom(k + 1, day, times, is_lab, rooms, rb)

\* the room returned without being written into the ledger
find_and_book_room_unrecorded(day, times, is_lab, rooms, rb) ==
    [room |-> BookFrom(1, day, times, is_lab, rooms, rb).room, room_bookings |-> rb]

RECURSIVE BookLast(_, _, _, _, _, _)
\* the roster walked from its end: the last room that fits is taken
BookLast(k, day, times, is_lab, rooms, rb) ==
    IF k < 1 THEN [room |-> "TBA", room_bookings |-> rb]
    ELSE IF /\ TypeMatch(rooms[k], is_lab)
            /\ check_room_availability(rooms[k].room_id, day, times, rb)
         THEN [room |-> rooms[k].room_id,
               room_bookings |->
                   rb \cup { << day, times[j], rooms[k].room_id >> : j \in 1..Len(times) }]
         ELSE BookLast(k - 1, day, times, is_lab, rooms, rb)

find_and_book_room_last_fit(day, times, is_lab, rooms, rb) ==
    BookLast(Len(rooms), day, times, is_lab, rooms, rb)

\* the room id returned (or "TBA") and the ledger afterwards
find_and_book_room(day, times, is_lab, rooms, rb) ==
    BookFrom(1, day, times, is_lab, rooms, rb)

\* timetables[section].append(entry), creating the list when missing
AppendEntries(tt, section, entries) ==
    IF section \in DOMAIN tt
    THEN [tt EXCEPT ![section] = @ \o entries]
    ELSE tt @@ (section :> entries)

(***************************************************************************)
(* The locals of generate_timetables, read off the loop positions.         *)
(***************************************************************************)
section == sections_df[row].Section
subject_list == sections_df[row].Subject
subject == subject_list[subj]
teachers == TeachersFor(teacher_mapping, subject)
teacher_name == teachers[1].name
credit_hours == ParseCredit(teachers[1].credit_hours)
is_lab == IsLabSubject(subject)
lab_duration == 3

NoResponse == [code |-> 0, status |-> "none", message |-> "", rendered |-> << >>]
NoPrevious == [valid |-> FALSE, same_generator |-> FALSE, exc |-> "", timetables |-> << >>]

\* timetable_output.docx not written yet; no second request
NoFile == [writer |-> 0, document |-> << >>]
NoOther == [pc |-> "absent"]

Init ==
    /\ \E c \in CreditCells : teacher_df = TeacherTable(c)
    /\ sections_df \in SectionTables
    /\ all_rooms \in RoomRosters
    /\ teacher_mapping = << >>
    /\ room_bookings = {}
    /\ timetables = << >>
    /\ current_slot_index = 0
    /\ row = 1
    /\ subj = 1
    /\ hour_i = 0
    /\ attempts = 0
    /\ start_search_index = 0
    /\ scheduled = FALSE
    /\ pc = "request"
    /\ exc = ""
    /\ response = NoResponse
    /\ bookings = << >>
    /\ runs = 0
    /\ previous = NoPrevious
    /\ wraps = {}
    /\ output_file = NoFile
    /\ who = 1
    /\ other = NoOther

\* the endpoint up to the call of generate_timetables: a new generator, the
\* sheets parsed, the mapping built
receive_request ==
    /\ pc = "request"
    /\ teacher_mapping' = build_teacher_mapping(teacher_df)
    /\ room_bookings' = {}
    /\ pc' = "generate"
    /\ UNCHANGED << teacher_df, sections_df, all_rooms, timetables, current_slot_index,
                    row, subj, hour_i, attempts, start_search_index, scheduled, exc,
                    response, bookings, runs, previous >>
    /\ UNCHANGED << output_file, who, other >>
    /\ UNCHANGED wraps

\* the ledger of the previous run kept
ResetLedger_kept(rb) == rb

\* "self.room_bookings = defaultdict(...)" at the start of a run
ResetLedger(rb) == {}

\* generate_timetables up to its outer loop
generate_timetables_begin ==
    /\ pc = "generate"
    /\ timetables' = << >>
    /\ room_bookings' = ResetLedger(room_bookings)
    /\ current_slot_index' = 0
    /\ row' = 1
    /\ subj' = 1
    /\ hour_i' = 0
    /\ attempts' = 0
    /\ start_search_index' = 0
    /\ scheduled' = FALSE
    /\ exc' = ""
    /\ bookings' = << >>
    /\ wraps' = {}
    /\ runs' = runs + 1
    /\ pc' = "row"
    /\ UNCHANGED << teacher_df, sections_df, all_rooms, teacher_mapping, response, previous >>
    /\ UNCHANGED << output_file, who, other >>

\* head of "for idx, row in sections_df.iterrows()", with the row's fault checks
next_section ==
    /\ pc = "row"
    /\ IF row > Len(sections_df)
       THEN /\ pc' = "returned"
            /\ UNCHANGED exc
       ELSE IF Len(section) = 0 \/ section = "nan"
            THEN /\ pc' = "raised"
                 /\ exc' = "Excel sheet fault: Missing Section Name at row "
                             \o ToString(row + 1)
            ELSE IF Len(subject_list) = 0
                 THEN /\ pc' = "raised"
                      /\ exc' = "Excel sheet fault: Missing Subjects for section '"
                                  \o section \o "'"
                 ELSE /\ pc' = "subject"
                      /\ UNCHANGED exc
    /\ subj' = 1
    /\ UNCHANGED << teacher_df, sections_df, all_rooms, teacher_mapping, room_bookings,
                    timetables, current_slot_index, row, hour_i, attempts,
                    start_search_index, scheduled, response, bookings, runs, previous >>
    /\ UNCHANGED << output_file, who, other >>
    /\ UNCHANGED wraps

\* head of "for subject in subject_list", up to the start of the subject's search
next_subject ==
    /\ pc = "subject"
    /\ IF subj > Len(subject_list)
       THEN /\ row' = row + 1
            /\ pc' = "row"
            /\ UNCHANGED << exc, hour_i, attempts, start_search_index, scheduled >>
       ELSE IF Len(teachers) = 0
            THEN /\ pc' = "raised"
                 /\ exc' = "Excel sheet fault: No teacher found for subject '" \o subject
                             \o "' in section '" \o section \o "'"
                 /\ UNCHANGED << row, hour_i, attempts, start_search_index, scheduled >>
            ELSE IF is_lab
                 THEN /\ scheduled' = FALSE
                      /\ attempts' = 0
                      /\ start_search_index' = current_slot_index
                      /\ pc' = "lab"
                      /\ UNCHANGED << exc, row, hour_i >>
                 ELSE /\ hour_i' = 0
                      /\ pc' = "theory_for"
                      /\ UNCHANGED << exc, row, attempts, start_search_index, scheduled >>
    /\ UNCHANGED << teacher_df, sections_df, all_rooms, teacher_mapping, room_bookings,
                    timetables, current_slot_index, subj, response, bookings, runs,
                    previous >>
    /\ UNCHANGED << output_file, who, other >>
    /\ UNCHANGED wraps

\* one timetable entry
Entry(subj_name, teacher, day, time, room) ==
    [subject |-> subj_name, teacher |-> teacher, day |-> day, time |-> time, room |-> room]

\* the history record of one successful find_and_book_room: slot is the index
\* of the first slot booked, from the cursor held when the search began
Booked(lab, day, times, room, slot, from) ==
    [section |-> section, subject |-> subject, teacher |-> teacher_name, is_lab |-> lab,
     day |-> day, times |-> times, room |-> room, slot |-> slot, from |-> from]

\* the counter left as it is
NextAttempt_forgotten(n) == n

\* "attempts += 1"
NextAttempt(n) == n + 1

\* the index without the modulo: a search that stops at the end of the week
LabIndex_no_wrap(start, n) == start + n

\* idx_check of a lab attempt
LabIndex(start, n) == (start + n) % total_slots

\* "idx_check + lab_duration > len(all_possible_slots)"
LabOverruns(idx_check) == idx_check + lab_duration > Len(all_possible_slots)

\* all_possible_slots[idx_check : idx_check + lab_duration]
LabWindow(idx_check) == [k \in 1..lab_duration |-> SlotAt(idx_check + k - 1)]

\* "all(s['day'] == first_day for s in slots_to_check)"
SameDay(slots_to_check) ==
    \A k \in 1..Len(slots_to_check) : slots_to_check[k].day = slots_to_check[1].day

\* the cursor left at the first slot of the lab
CursorAfterLab_unmoved(idx_check) == idx_check

\* "current_slot_index = (idx_check + lab_duration) % total_slots"
CursorAfterLab(idx_check) == (idx_check + lab_duration) % total_slots

\* the wraps of one lab attempt: the index start + attempts reduced by the
\* modulo, and (committed) the cursor update idx_check + lab_duration reduced
LabWraps(start, n, committed) ==
    (IF start + n >= total_slots THEN { "lab index" } ELSE {})
        \cup (IF committed /\ LabIndex(start, n) + lab_duration >= total_slots
              THEN { "lab cursor" } ELSE {})

\* the wrap of one theory attempt: current_slot_index += 1 reaches total_slots
TheoryWraps(cursor) ==
    IF cursor + 1 >= total_slots THEN { "cursor" } ELSE {}

\* one iteration of the lab while loop
lab_attempt ==
    /\ pc = "lab"
    /\ ~scheduled
    /\ attempts < total_slots
    /\ LET idx_check == LabIndex(start_search_index, attempts)
       IN  IF LabOverruns(idx_check)
           THEN /\ attempts' = NextAttempt(attempts)
                /\ wraps' = wraps \cup LabWraps(start_search_index, attempts, FALSE)
                /\ UNCHANGED << room_bookings, timetables, current_slot_index, scheduled,
                                bookings >>
           ELSE LET slots_to_check == LabWindow(idx_check)
                    first_day == slots_to_check[1].day
                IN  IF ~SameDay(slots_to_check)
                    THEN /\ attempts' = NextAttempt(attempts)
                         /\ wraps' = wraps \cup
                                       LabWraps(start_search_index, attempts, FALSE)
                         /\ UNCHANGED << room_bookings, timetables, current_slot_index,
                                         scheduled, bookings >>
                    ELSE LET time_strings ==
                                 [k \in 1..Len(slots_to_check) |->
                                     FormatTime(slots_to_check[k].time)]
                         IN  \E res \in { find_and_book_room(first_day, time_strings, TRUE,
                                                                all_rooms, room_bookings) } :
                             IF res.room # "TBA"
                             THEN /\ room_bookings' = res.room_bookings
                                  /\ timetables' =
                                       AppendEntries(timetables, section,
                                           [k \in 1..Len(time_strings) |->
                                               Entry(subject, teacher_name, first_day,
                                                     time_strings[k], "[LAB]")])
                                  /\ bookings' = Append(bookings,
                                       Booked(TRUE, first_day, time_strings, res.room,
                                              idx_check, start_search_index))
                                  /\ scheduled' = TRUE
                                  /\ current_slot_index' = CursorAfterLab(idx_check)
                                  /\ wraps' = wraps \cup
                                       LabWraps(start_search_index, attempts, TRUE)
                                  /\ UNCHANGED attempts
                             ELSE /\ attempts' = NextAttempt(attempts)
                                  /\ wraps' = wraps \cup
                                       LabWraps(start_search_index, attempts, FALSE)
                                  /\ UNCHANGED << room_bookings, timetables,
                                                  current_slot_index, scheduled, bookings >>
    /\ UNCHANGED << teacher_df, sections_df, all_rooms, teacher_mapping, row, subj, hour_i,
                    start_search_index, pc, exc, response, runs, previous >>
    /\ UNCHANGED << output_file, who, other >>

\* the lab solvability check, then on to the next subject
lab_solvability ==
    /\ pc = "lab"
    /\ scheduled \/ attempts >= total_slots
    /\ IF ~scheduled
       THEN /\ pc' = "raised"
            /\ exc' = "not possible"
            /\ UNCHANGED subj
       ELSE /\ pc' = "subject"
            /\ subj' = subj + 1
            /\ UNCHANGED exc
    /\ UNCHANGED << teacher_df, sections_df, all_rooms, teacher_mapping, room_bookings,
                    timetables, current_slot_index, row, hour_i, attempts,
                    start_search_index, scheduled, response, bookings, runs, previous >>
    /\ UNCHANGED << output_file, who, other >>
    /\ UNCHANGED wraps

\* head of "for i in range(credit_hours)"
theory_for ==
    /\ pc = "theory_for"
    /\ IF hour_i < credit_hours
       THEN /\ attempts' = 0
            /\ scheduled' = FALSE
            /\ pc' = "theory"
            /\ UNCHANGED subj
       ELSE /\ pc' = "subject"
            /\ subj' = subj + 1
            /\ UNCHANGED << attempts, scheduled >>
    /\ UNCHANGED << teacher_df, sections_df, all_rooms, teacher_mapping, room_bookings,
                    timetables, current_slot_index, row, hour_i, start_search_index, exc,
                    response, bookings, runs, previous >>
    /\ UNCHANGED << output_file, who, other >>
    /\ UNCHANGED wraps

\* one iteration of the theory while loop
theory_attempt ==
    /\ pc = "theory"
    /\ ~scheduled
    /\ attempts < total_slots
    /\ LET safe_index == current_slot_index % total_slots
           selected_slot == SlotAt(safe_index)
           day == selected_slot.day
           formatted_time == FormatTime(selected_slot.time)
       IN  \E res \in { find_and_book_room(day, << formatted_time >>, FALSE, all_rooms,
                                              room_bookings) } :
           IF res.room # "TBA"
           THEN /\ room_bookings' = res.room_bookings
                /\ current_slot_index' = current_slot_index + 1
                /\ timetables' =
                     AppendEntries(timetables, section,
                         << Entry(subject, teacher_name, day, formatted_time,
                                  "[" \o res.room \o "]") >>)
                /\ bookings' = Append(bookings,
                     Booked(FALSE, day, << formatted_time >>, res.room, safe_index,
                            current_slot_index - attempts))
                /\ scheduled' = TRUE
                /\ UNCHANGED attempts
           ELSE /\ current_slot_index' = current_slot_index + 1
                /\ attempts' = NextAttempt(attempts)
                /\ UNCHANGED << room_bookings, timetables, scheduled, bookings >>
    /\ wraps' = wraps \cup TheoryWraps(current_slot_index)
    /\ UNCHANGED << teacher_df, sections_df, all_rooms, teacher_mapping, row, subj, hour_i,
                    start_search_index, pc, exc, response, runs, previous >>
    /\ UNCHANGED << output_file, who, other >>

\* the theory solvability check, then on to the next hour
theory_solvability ==
    /\ pc = "theory"
    /\ scheduled \/ attempts >= total_slots
    /\ IF ~scheduled
       THEN /\ pc' = "raised"
            /\ exc' = "not possible"
            /\ UNCHANGED hour_i
       ELSE /\ pc' = "theory_for"
            /\ hour_i' = hour_i + 1
            /\ UNCHANGED exc
    /\ UNCHANGED << teacher_df, sections_df, all_rooms, teacher_mapping, room_bookings,
                    timetables, current_slot_index, row, subj, attempts,
                    start_search_index, scheduled, response, bookings, runs, previous >>
    /\ UNCHANGED << output_file, who, other >>
    /\ UNCHANGED wraps

\* the error reported, with what had been booked so far still rendered
RespondGenerate_partial(state, message, tt) ==
    IF state = "returned"
    THEN [code |-> 200, status |-> "success",
          message |-> "Timetable generated successfully", rendered |-> tt]
    ELSE [code |-> 200, status |-> "error", message |-> message, rendered |-> tt]

\* the outcome of /generate-timetable: the timetables rendered into the document
\* it writes, or the error message in a JSON body
RespondGenerate(state, message, tt) ==
    IF state = "returned"
    THEN [code |-> 200, status |-> "success",
          message |-> "Timetable generated successfully", rendered |-> tt]
    ELSE [code |-> 200, status |-> "error", message |-> message, rendered |-> << >>]

\* the outcome of /download-timetable: the document streamed back, or HTTP 400
RespondDownload(state, message, tt) ==
    IF state = "returned"
    THEN [code |-> 200, status |-> "success", message |-> "", rendered |-> tt]
    ELSE [code |-> 400, status |-> "error", message |-> message, rendered |-> << >>]

\* open(temp_path, 'wb') and f.write(word_content): the one file name every
\* request writes, when generate_timetables returned
WriteOutput(file, state, writer, tt) ==
    IF state = "returned" THEN [writer |-> writer, document |-> tt] ELSE file

\* /generate-timetable after generate_timetables returned or raised
generate_timetable ==
    /\ pc \in { "returned", "raised" }
    /\ response' = RespondGenerate(pc, exc, timetables)
    /\ output_file' = WriteOutput(output_file, pc, who, timetables)
    /\ pc' = "responded"
    /\ UNCHANGED << who, other >>
    /\ UNCHANGED << teacher_df, sections_df, all_rooms, teacher_mapping, room_bookings,
                    timetables, current_slot_index, row, subj, hour_i, attempts,
                    start_search_index, scheduled, exc, bookings, runs, previous >>
    /\ UNCHANGED wraps

\* /download-timetable after generate_timetables returned or raised
download_timetable ==
    /\ pc \in { "returned", "raised" }
    /\ response' = RespondDownload(pc, exc, timetables)
    /\ pc' = "responded"
    /\ UNCHANGED << teacher_df, sections_df, all_rooms, teacher_mapping, room_bookings,
                    timetables, current_slot_index, row, subj, hour_i, attempts,
                    start_search_index, scheduled, exc, bookings, runs, previous >>
    /\ UNCHANGED << output_file, who, other >>
    /\ UNCHANGED wraps

\* a second call of generate_timetables with the same tables, on the same
\* generator (keep = TRUE) or on a new one
call_again(keep) ==
    /\ pc \in { "returned", "raised" }
    /\ ~previous.valid
    /\ previous' = [valid |-> TRUE, same_generator |-> keep, exc |-> exc,
                    timetables |-> timetables]
    /\ room_bookings' = IF keep THEN room_bookings ELSE {}
    /\ pc' = "generate"
    /\ UNCHANGED << teacher_df, sections_df, all_rooms, teacher_mapping, timetables,
                    current_slot_index, row, subj, hour_i, attempts, start_search_index,
                    scheduled, exc, response, bookings, runs >>
    /\ UNCHANGED << output_file, who, other >>
    /\ UNCHANGED wraps

Next ==
    \/ receive_request
    \/ generate_timetables_begin
    \/ next_section
    \/ next_subject
    \/ lab_attempt
    \/ lab_solvability
    \/ theory_for
    \/ theory_attempt
    \/ theory_solvability
    \/ generate_timetable
    \/ download_timetable

Spec == Init /\ [][Next]_vars

\* the variables of one handler, as they are put aside while the other runs
Handler ==
    [teacher_df |-> teacher_df, sections_df |-> sections_df, all_rooms |-> all_rooms,
     teacher_mapping |-> teacher_mapping, room_bookings |-> room_bookings,
     timetables |-> timetables, current_slot_index |-> current_slot_index,
     row |-> row, subj |-> subj, hour_i |-> hour_i, attempts |-> attempts,
     start_search_index |-> start_search_index, scheduled |-> scheduled, pc |-> pc,
     exc |-> exc, response |-> response, bookings |-> bookings, runs |-> runs,
     previous |-> previous, wraps |-> wraps]

\* the workbook of the second request
SecondUpload ==
    [teacher_df |-> TeacherTable(BlankCell),
     sections_df |-> << [Section |-> "B1", Subject |-> << "Math" >>] >>,
     all_rooms |-> << [room_id |-> "KE-1", type |-> "Class Room"] >>,
     teacher_mapping |-> << >>, room_bookings |-> {}, timetables |-> << >>,
     current_slot_index |-> 0, row |-> 1, subj |-> 1, hour_i |-> 0, attempts |-> 0,
     start_search_index |-> 0, scheduled |-> FALSE, pc |-> "request", exc |-> "",
     response |-> NoResponse, bookings |-> << >>, runs |-> 0, previous |-> NoPrevious,
     wraps |-> {}]

\* two requests arrive together; the first one's credit-hours cell is blank
\* and its rooms sheet has one row
InitPair ==
    /\ teacher_df = TeacherTable(BlankCell)
    /\ sections_df \in SectionTables
    /\ all_rooms \in [1..1 -> RoomPool]
    /\ teacher_mapping = << >>
    /\ room_bookings = {}
    /\ timetables = << >>
    /\ current_slot_index = 0
    /\ row = 1
    /\ subj = 1
    /\ hour_i = 0
    /\ attempts = 0
    /\ start_search_index = 0
    /\ scheduled = FALSE
    /\ pc = "request"
    /\ exc = ""
    /\ response = NoResponse
    /\ bookings = << >>
    /\ runs = 0
    /\ previous = NoPrevious
    /\ wraps = {}
    /\ output_file = NoFile
    /\ who = 1
    /\ other = SecondUpload

\* the running handler is put aside and the other request's handler goes on:
\* each handler has its own generator and locals, the file is the same
interleave ==
    /\ other.pc # "absent"
    /\ other' = Handler
    /\ who' = 3 - who
    /\ teacher_df' = other.teacher_df
    /\ sections_df' = other.sections_df
    /\ all_rooms' = other.all_rooms
    /\ teacher_mapping' = other.teacher_mapping
    /\ room_bookings' = other.room_bookings
    /\ timetables' = other.timetables
    /\ current_slot_index' = other.current_slot_index
    /\ row' = other.row
    /\ subj' = other.subj
    /\ hour_i' = other.hour_i
    /\ attempts' = other.attempts
    /\ start_search_index' = other.start_search_index
    /\ scheduled' = other.scheduled
    /\ pc' = other.pc
    /\ exc' = other.exc
    /\ response' = other.response
    /\ bookings' = other.bookings
    /\ runs' = other.runs
    /\ previous' = other.previous
    /\ wraps' = other.wraps
    /\ UNCHANGED output_file

NextPair ==
    \/ Next
    \/ interleave

\* two requests whose handlers' steps interleave in any order
SpecPair == InitPair /\ [][NextPair]_vars

\* a request runs on one thread, start to finish, without waiting on anything
FairSpec == Spec /\ WF_vars(Next)

NextRerun ==
    \/ Next
    \/ call_again(TRUE)
    \/ call_again(FALSE)

\* the same tables given to generate_timetables a second time
SpecRerun == Init /\ [][NextRerun]_vars

\* workbooks that take the cursor to the end of the week: three subjects in
\* all, Math with 3 hours (blank cell), total_slots - 3 or total_slots - 2
CursorCredits == { BlankCell, IntCell(total_slots - 3), IntCell(total_slots - 2) }
CursorSubjects == { "Math", "Net Lab" }
CursorLists == UNION { [1..n -> CursorSubjects] : n \in 1..3 }
CursorTables ==
    { [k \in 1..Len(lists) |-> [Section |-> SectionName(k), Subject |-> lists[k]]] :
        lists \in { l \in UNION { [1..n -> CursorLists] : n \in 1..3 } :
                      TotalSubjects(l) = 3 } }

InitCursor ==
    /\ \E c \in CursorCredits : teacher_df = TeacherTable(c)
    /\ sections_df \in CursorTables
    /\ all_rooms \in RoomRosters
    /\ teacher_mapping = << >>
    /\ room_bookings = {}
    /\ timetables = << >>
    /\ current_slot_index = 0
    /\ row = 1
    /\ subj = 1
    /\ hour_i = 0
    /\ attempts = 0
    /\ start_search_index = 0
    /\ scheduled = FALSE
    /\ pc = "request"
    /\ exc = ""
    /\ response = NoResponse
    /\ bookings = << >>
    /\ runs = 0
    /\ previous = NoPrevious
    /\ wraps = {}
    /\ output_file = NoFile
    /\ who = 1
    /\ other = NoOther

\* one request with such a workbook
SpecCursor == InitCursor /\ [][Next]_vars

(***************************************************************************)
(* Properties.                                                             *)
(***************************************************************************)
\* the entries of a timetable, each named by its section and position
EntryKeys(tt) == UNION { { << s, k >> : k \in 1..Len(tt[s]) } : s \in DOMAIN tt }
EntryAt(tt, key) == tt[key[1]][key[2]]

\* two bookings of the history share an hour of a day
SharesHour(a, b) ==
    /\ a.day = b.day
    /\ \E m \in 1..Len(a.times), n \in 1..Len(b.times) : a.times[m] = b.times[n]

\* the roster rows that carry a room id
RoomRows(r_id) == { all_rooms[k] : k \in { j \in 1..Len(all_rooms) : all_rooms[j].room_id = r_id } }

\* C1: at every point of a run, no room id returned by find_and_book_room is
\* held by two different bookings that share an hour of the same day.
RoomsNeverDoubleBooked ==
    \A i \in 1..Len(bookings) :
        \A j \in (i + 1)..Len(bookings) :
            bookings[i].room = bookings[j].room
                => ~SharesHour(bookings[i], bookings[j])

\* C1 witness: two bookings share an hour of a day, in different rooms.
RoomContended ==
    \E i, j \in 1..Len(bookings) :
        /\ i # j
        /\ SharesHour(bookings[i], bookings[j])
        /\ bookings[i].room # bookings[j].room

\* C2 as claimed: in the returned timetable no teacher has two different
\* entries, of the same or of different sections, at the same (day, hour).
TeachersNeverDoubleBooked ==
    pc = "returned" =>
        \A p, q \in EntryKeys(timetables) :
            (p # q /\ EntryAt(timetables, p).teacher = EntryAt(timetables, q).teacher)
                => ~(/\ EntryAt(timetables, p).day = EntryAt(timetables, q).day
                     /\ EntryAt(timetables, p).time = EntryAt(timetables, q).time)

\* C3 as claimed: in the returned timetable no section has two different
\* entries at the same (day, hour).
SectionsNeverDoubleBooked ==
    pc = "returned" =>
        \A s \in DOMAIN timetables :
            \A m, n \in 1..Len(timetables[s]) :
                m # n => ~(/\ timetables[s][m].day = timetables[s][n].day
                           /\ timetables[s][m].time = timetables[s][n].time)

\* the hours of the working day and of the breaks, as the timetable prints them
WorkingTimes == { FormatTime(<< h, h + 1 >>) : h \in 8..15 }
BreakTimes(day) ==
    IF day = "Friday"
    THEN { FormatTime(<< h, h + 1 >>) : h \in 12..13 }
    ELSE { FormatTime(<< h, h + 1 >>) : h \in 12..12 }

\* C4: every hour booked, in the timetable and in the room ledger, is an hour
\* of [8,16) and is not a break hour of its day (12 on Monday-Thursday, 12 and
\* 13 on Friday).
BreakInviolable ==
    /\ \A p \in EntryKeys(timetables) :
          /\ EntryAt(timetables, p).time \in WorkingTimes
          /\ EntryAt(timetables, p).time \notin BreakTimes(EntryAt(timetables, p).day)
    /\ \A b \in room_bookings :
          /\ b[2] \in WorkingTimes
          /\ b[2] \notin BreakTimes(b[1])

\* C4 witness: hours are booked right after the break on Friday and on
\* another day.
BookedAroundBreaks ==
    /\ \E p \in EntryKeys(timetables) :
          /\ EntryAt(timetables, p).day = "Friday"
          /\ EntryAt(timetables, p).time = FormatTime(<< 14, 15 >>)
    /\ \E p \in EntryKeys(timetables) :
          /\ EntryAt(timetables, p).day = "Thursday"
          /\ EntryAt(timetables, p).time = FormatTime(<< 13, 14 >>)

\* the room ids given to lab sessions (lab = TRUE) or to the other sessions
RoomsUsed(lab) ==
    { bookings[i].room : i \in { k \in 1..Len(bookings) : bookings[k].is_lab = lab } }

AllOrNothing ==
    (pc = "responded" /\ exc = "not possible") =>
        /\ response.status = "error"
        /\ response.message = "not possible"
        /\ EntryKeys(response.rendered) = {}

\* C6 witness: a request answered "not possible" after bookings were made.
FailedAfterBookings ==
    /\ pc = "responded"
    /\ exc = "not possible"
    /\ Len(bookings) > 0
    /\ response.status = "error"

\* C7 as claimed: a timetable that is returned holds at least one entry for
\* every (section, subject) pair of the Sections sheet.
EverySubjectBooked ==
    pc = "returned" =>
        \A k \in 1..Len(sections_df) :
            \A j \in 1..Len(sections_df[k].Subject) :
                /\ sections_df[k].Section \in DOMAIN timetables
                /\ \E m \in 1..Len(timetables[sections_df[k].Section]) :
                      timetables[sections_df[k].Section][m].subject
                          = sections_df[k].Subject[j]

\* C8: a second call with the same tables, on the same generator or on a new
\* one, ends as the first call did, with the same entries in the same order.
SameResultOnRerun ==
    (previous.valid /\ pc \in { "returned", "raised" }) =>
        /\ exc = previous.exc
        /\ timetables = previous.timetables

\* C8 witness: a second call on the same generator has returned a timetable
\* with entries in it.
RerunOnSameGenerator ==
    /\ previous.valid
    /\ previous.same_generator
    /\ pc = "returned"
    /\ EntryKeys(timetables) # {}

\* some subject of the Sections sheet is in no teacher's courses
HasUnresolvedSubject ==
    \E k \in 1..Len(sections_df) :
        \E j \in 1..Len(sections_df[k].Subject) :
            sections_df[k].Subject[j] \notin Courses(teacher_df)

\* C9: with a subject that no teacher teaches, generate_timetables never
\* returns, and the caller gets an error and no booking.
UnresolvedTeacherRejected ==
    HasUnresolvedSubject =>
        /\ pc # "returned"
        /\ pc = "responded" =>
              /\ response.status = "error"
              /\ EntryKeys(response.rendered) = {}

\* C9 witness: the request is rejected for the missing teacher after earlier
\* subjects were booked.
RejectedAfterBookings ==
    /\ pc = "responded"
    /\ HasUnresolvedSubject
    /\ Contains("No teacher found for subject", exc)
    /\ Len(bookings) > 0
    /\ response.status = "error"

\* C10: every search makes at most total_slots attempts, and every request
\* ends: generate_timetables returns or raises and the endpoint answers.
Termination ==
    /\ [](attempts <= total_slots)
    /\ <>(pc = "responded" /\ response.status \in { "success", "error" })

\* C10 witness: a search has used all its total_slots attempts.
SearchExhausted ==
    /\ pc \in { "lab", "theory" }
    /\ attempts = total_slots
    /\ ~scheduled

\* the ledger that the bookings of a history amount to
LedgerOf(bk) ==
    UNION { { << bk[i].day, bk[i].times[k], bk[i].room >> : k \in 1..Len(bk[i].times) } :
              i \in 1..Len(bk) }

\* a handler's ledger holds the bookings of its own run and no others
OwnLedger(h) == h.room_bookings = LedgerOf(h.bookings)

\* the document a handler wrote to timetable_output.docx is still in the file
OutputKept(h, id) ==
    (h.pc = "responded" /\ h.response.message = "Timetable generated successfully")
        => output_file = [writer |-> id, document |-> h.timetables]

\* C11 as claimed: with the steps of two requests interleaved, each handler's
\* ledger holds its own bookings only, and nothing a request wrote is
\* overwritten by the other: the document of a request answered "success" is
\* still the content of the file it was written to.
RequestsIsolated ==
    /\ OwnLedger(Handler)
    /\ OwnLedger(other)
    /\ OutputKept(Handler, who)
    /\ OutputKept(other, 3 - who)

\* the part of C11 about the generators: each ledger holds its own run only
LedgersIsolated ==
    /\ OwnLedger(Handler)
    /\ OwnLedger(other)

\* a timetable entry has a room recorded in the ledger at its day and hour
EntryInLedger(e, rb) ==
    \E b \in rb :
        /\ b[1] = e.day
        /\ b[2] = e.time
        /\ e.room \in { "[" \o b[3] \o "]", "[LAB]" }

\* C12: at every point of a run the ledger room_bookings holds exactly the
\* (day, hour, room) of the bookings committed so far, every timetable entry
\* has its room in the ledger at its day and hour, and within a run a step
\* only adds entries to the ledger.
LedgerInvariant ==
    /\ [](/\ room_bookings = LedgerOf(bookings)
          /\ \A p \in EntryKeys(timetables) :
                EntryInLedger(EntryAt(timetables, p), room_bookings))
    /\ [][pc \notin { "request", "generate" } => room_bookings \subseteq room_bookings']_vars

\* C12 witness: a lab block and a theory hour are committed and in the ledger.
LedgerHoldsLabAndTheory ==
    /\ \E i, j \in 1..Len(bookings) : bookings[i].is_lab /\ ~bookings[j].is_lab
    /\ Cardinality(room_bookings) >= 4

\* the lab sessions committed for a subject of a section, and the entries
\* (booked hours) the section's timetable holds for it
LabSessions(sec, sub) ==
    { i \in 1..Len(bookings) :
        bookings[i].is_lab /\ bookings[i].section = sec /\ bookings[i].subject = sub }
HoursOf(sec, sub) ==
    IF sec \in DOMAIN timetables
    THEN { m \in 1..Len(timetables[sec]) : timetables[sec][m].subject = sub }
    ELSE {}

\* how many times a row of the Sections sheet lists a subject
Listed(k, sub) ==
    Cardinality({ j \in 1..Len(sections_df[k].Subject) : sections_df[k].Subject[j] = sub })

\* C13 as claimed: in a returned timetable every lab subject of a section
\* has two committed sessions of 3 hours each, 6 booked lab hours in all.
LabSplitInTwo ==
    pc = "returned" =>
        \A k \in 1..Len(sections_df) :
            \A j \in 1..Len(sections_df[k].Subject) :
                IsLabSubject(sections_df[k].Subject[j]) =>
                    /\ Cardinality(LabSessions(sections_df[k].Section,
                                                sections_df[k].Subject[j]))
                          = 2 * Listed(k, sections_df[k].Subject[j])
                    /\ Cardinality(HoursOf(sections_df[k].Section,
                                            sections_df[k].Subject[j]))
                          = 6 * Listed(k, sections_df[k].Subject[j])

\* the hours of a block of n consecutive clock hours that starts at h
ClockBlock(h, n) == [k \in 1..n |-> FormatTime(<< h + k - 1, h + k >>)]

\* C14 as claimed: the three hours of every committed lab are consecutive
\* clock hours h, h+1, h+2 of one day, so the block spans 3 hours and does
\* not reach over the break.
LabBlocksContiguous ==
    \A i \in 1..Len(bookings) :
        bookings[i].is_lab =>
            \E h \in 8..13 : bookings[i].times = ClockBlock(h, lab_duration)

\* the (day, hour, room) of the non-lab bookings of a subject of a section
TheoryHours(sec, sub) ==
    { << bookings[i].day, bookings[i].times[1], bookings[i].room >> :
        i \in { n \in 1..Len(bookings) :
                  /\ ~bookings[n].is_lab
                  /\ bookings[n].section = sec
                  /\ bookings[n].subject = sub } }

\* the credit hours generate_timetables reads for a subject
CreditOf(sub) == ParseCredit(TeachersFor(teacher_mapping, sub)[1].credit_hours)

\* C15 as claimed: in a returned timetable a non-lab subject with
\* credit_hours = k >= 1 (listed once in its section) is booked as one block
\* of k consecutive clock hours of one day in one room.
TheoryBlocksContiguous ==
    pc = "returned" =>
        \A k \in 1..Len(sections_df) :
            \A j \in 1..Len(sections_df[k].Subject) :
                LET sec == sections_df[k].Section
                    sub == sections_df[k].Subject[j]
                IN  (~IsLabSubject(sub) /\ Listed(k, sub) = 1 /\ CreditOf(sub) >= 1) =>
                        \E d \in 1..Len(days), h \in 8..15, r \in 1..Len(all_rooms) :
                            TheoryHours(sec, sub)
                                = { << days[d], ClockBlock(h, CreditOf(sub))[m],
                                       all_rooms[r].room_id >> : m \in 1..CreditOf(sub) }

\* the duration of the session a booking belongs to: 3 hours for a lab, the
\* subject's credit hours otherwise
SessionDuration(b) == IF b.is_lab THEN lab_duration ELSE CreditOf(b.subject)

\* C16 as claimed: across the whole run the sessions are taken in
\* non-increasing order of duration: no booking is made for a longer session
\* after a booking for a strictly shorter one.
LongestSessionsFirst ==
    \A i \in 1..Len(bookings) :
        \A j \in (i + 1)..Len(bookings) :
            SessionDuration(bookings[i]) >= SessionDuration(bookings[j])

\* C17 as claimed: no booking whose teacher name ends with "main" has a
\* booked hour that starts at 8.
MainTeacherNotAtEight ==
    \A i \in 1..Len(bookings) :
        EndsWithLower(bookings[i].teacher, "main") =>
            \A k \in 1..Len(bookings[i].times) :
                bookings[i].times[k] # FormatTime(<< 8, 9 >>)

\* the search that is running is about to call find_and_book_room
AboutToCall ==
    /\ pc \in { "lab", "theory" }
    /\ ~scheduled
    /\ attempts < total_slots
    /\ pc = "lab" =>
          /\ ~LabOverruns(LabIndex(start_search_index, attempts))
          /\ SameDay(LabWindow(LabIndex(start_search_index, attempts)))

\* the day and the hours that call is made with
CallDay ==
    IF pc = "lab"
    THEN SlotAt(LabIndex(start_search_index, attempts)).day
    ELSE SlotAt(current_slot_index % total_slots).day
CallTimes ==
    IF pc = "lab"
    THEN [k \in 1..lab_duration |->
             FormatTime(LabWindow(LabIndex(start_search_index, attempts))[k].time)]
    ELSE << FormatTime(SlotAt(current_slot_index % total_slots).time) >>

\* the roster positions whose room has the type of the session and is free
\* in every hour of the window
Fits(day, times, lab, rb) ==
    { k \in 1..Len(all_rooms) :
        /\ TypeMatch(all_rooms[k], lab)
        /\ \A j \in 1..Len(times) : << day, times[j], all_rooms[k].room_id >> \notin rb }

\* C18: a call of find_and_book_room takes the first room of the roster that
\* has the session's type and is free in every hour of the window, and
\* records it under those hours; when no room is, it returns "TBA" (nothing
\* is committed) and the ledger is left as it was.
FirstFitRoom ==
    [][AboutToCall =>
         LET fits == Fits(CallDay, CallTimes, pc = "lab", room_bookings)
             first == CHOOSE k \in fits : \A n \in fits : k <= n
         IN  IF fits = {}
             THEN /\ room_bookings' = room_bookings
                  /\ bookings' = bookings
                  /\ ~scheduled'
             ELSE /\ Len(bookings') = Len(bookings) + 1
                  /\ bookings'[Len(bookings')].room = all_rooms[first].room_id
                  /\ bookings'[Len(bookings')].day = CallDay
                  /\ bookings'[Len(bookings')].times = CallTimes
                  /\ room_bookings' = room_bookings \cup
                        { << CallDay, CallTimes[j], all_rooms[first].room_id >> :
                            j \in 1..Len(CallTimes) }]_vars

\* C18 witness: a booking went to a later room of the roster because the
\* first room, of the right type, was taken in that hour.
LaterRoomTaken ==
    \E i \in 1..Len(bookings) :
        /\ TypeMatch(all_rooms[1], bookings[i].is_lab)
        /\ bookings[i].room # all_rooms[1].room_id
        /\ << bookings[i].day, bookings[i].times[1], all_rooms[1].room_id >>
              \in room_bookings

\* a lab can be placed: three neighbouring slots of one day with a lab-type
\* room free in all three
LabPlacements(rb) ==
    { idx \in 0..(total_slots - lab_duration) :
        /\ SameDay(LabWindow(idx))
        /\ Fits(SlotAt(idx).day,
                [k \in 1..lab_duration |-> FormatTime(LabWindow(idx)[k].time)],
                TRUE, rb) # {} }

\* a theory hour can be placed: a slot with a non-lab room free
TheoryPlacements(rb) ==
    { idx \in 0..(total_slots - 1) :
        Fits(SlotAt(idx).day, << FormatTime(SlotAt(idx).time) >>, FALSE, rb) # {} }

\* some row of the Sections sheet lists a lab subject
HasLabSubject ==
    \E k \in 1..Len(sections_df) :
        \E j \in 1..Len(sections_df[k].Subject) : IsLabSubject(sections_df[k].Subject[j])

\* C19: a search ends in "not possible" only when the week holds no placement
\* for the session at that moment, wherever the search started.  A run with a
\* lab subject and no lab-type room never returns a timetable, and its answer
\* carries no booking.
ExhaustiveSearch ==
    /\ (pc = "raised" /\ exc = "not possible") =>
          IF is_lab THEN LabPlacements(room_bookings) = {}
                    ELSE TheoryPlacements(room_bookings) = {}
    /\ (pc \in { "returned", "responded" } /\ HasLabSubject
            /\ \A k \in 1..Len(all_rooms) : ~TypeMatch(all_rooms[k], TRUE)) =>
          /\ pc # "returned"
          /\ pc = "responded" => EntryKeys(response.rendered) = {}

\* C19 witness: a theory hour failed after total_slots attempts, with every
\* slot of the week taken in every non-lab room.
WeekFull ==
    /\ pc = "raised"
    /\ exc = "not possible"
    /\ ~is_lab
    /\ attempts = total_slots
    /\ Len(bookings) >= total_slots

\* the ledger as it was when the i-th booking of the run was made
LedgerBefore(i) == LedgerOf(SubSeq(bookings, 1, i - 1))

\* C20 as claimed: every session is committed at the earliest (day, start
\* hour) of the week, counted from Monday, at which a room of its type was
\* free: no placement existed at an earlier slot than the one chosen.
EarliestPlacement ==
    \A i \in 1..Len(bookings) :
        \A idx \in (IF bookings[i].is_lab THEN LabPlacements(LedgerBefore(i))
                                          ELSE TheoryPlacements(LedgerBefore(i))) :
            idx >= bookings[i].slot

\* every booking of the run lies at or after the cursor held when its search
\* began, and no two bookings of the run share a (day, hour)
CursorOrdered ==
    /\ \A i \in 1..Len(bookings) : bookings[i].slot >= bookings[i].from
    /\ \A i \in 1..Len(bookings) :
          \A j \in (i + 1)..Len(bookings) : ~SharesHour(bookings[i], bookings[j])

\* C21 as claimed: as long as current_slot_index has not reached total_slots
\* and no lab search index has wrapped modulo total_slots, every booking lies
\* at or after the cursor of its search and no two booked hours of the run
\* share a (day, hour).
CursorInvariantAsStated ==
    (wraps \cap { "cursor", "lab index" } = {}) => CursorOrdered

\* C21 amended: the same, as long as none of the three wraps has happened:
\* current_slot_index reaching total_slots, a lab search index reduced modulo
\* total_slots, or the cursor update after a lab, (idx_check + lab_duration)
\* % total_slots, reduced to 0.
CursorInvariant ==
    (wraps = {}) => CursorOrdered

\* C21 witness: before any wrap a lab and a theory hour are booked, and a
\* lab search has moved on from its starting cursor to a later window.
SearchMovedOn ==
    /\ wraps = {}
    /\ \E i, j \in 1..Len(bookings) : bookings[i].is_lab /\ ~bookings[j].is_lab
    /\ \E i \in 1..Len(bookings) : bookings[i].slot > bookings[i].from

====
